---- MODULE Spec2Model ----
(***************************************************************************)
(* Model of the UrbaPonics air monitoring sketch                           *)
(* (src/src/Air Monitoring Dashboard/code.ino): the fan controller         *)
(* (controlFans, readAndSendSensors, the threshold handlers) and the grow  *)
(* light / fogger scheduler (scheduleGrowLight, scheduleFoggerNow,         *)
(* enableScheduler, the V0/V7/V8 handlers, BLYNK_CONNECTED).               *)
(*                                                                         *)
(* Handlers run to completion on the single dispatch loop, so each handler *)
(* is one action.  A Ticker holds at most one armed one-shot timer: once() *)
(* on an armed Ticker replaces the timer, detach() disarms it.  Time is in *)
(* seconds; a due timer fires before time advances further.                *)
(*                                                                         *)
(* SpecFans is the fan controller with its threshold handlers, SpecSched   *)
(* the scheduler with its handlers and timers, SpecPulse the scheduler     *)
(* with scheduleFoggerNow() also called on its own.                        *)
(*                                                                         *)
(* The water monitoring sketch                                             *)
(* (src/src/Water Monitoring Dashboard/code.ino) is a second program: its  *)
(* cooling controller, manual drain and telemetry are SpecWater.           *)
(***************************************************************************)
EXTENDS Integers, Sequences, FiniteSets, TLC

\* ------------------------------------------------------------------
\* Program constants
LIGHT_DEFAULT_HOURS == 6
FOGGER_DEFAULT_SECONDS == 5
TEMP_DANGER_LOW == 10
TEMP_DANGER_HIGH == 40
HUM_DANGER_LOW == 30
HUM_DANGER_HIGH == 90
CO2_DANGER_LOW == 100
CO2_DANGER_HIGH == 2000
HYST == 2
CYCLE_HOURS == 12
FOGGER_MIN_SECONDS == 5
FOGGER_MAX_SECONDS == 180
SEC_PER_HOUR == 3600
ADC_MAX == 4095
CO2_MAP_LOW == 400
CO2_MAP_HIGH == 2000
NEVER_SENT == -999
\* water sketch
TEMP_HYSTERESIS == 1
TEMP_THRESHOLD == 1
TURBIDITY_THRESHOLD == 10
DISCONNECTED_TEMP == -99
TURBIDITY_RAW_CLEAR == 1595
TURBIDITY_NTU_MAX == 3000
NO_LEVEL_SENT == -1

\* ------------------------------------------------------------------
\* Bounds
\* threshold writes explored per behaviour
MaxCfgWrites == 1
\* 12-hour cycles followed after an enable
MaxCycles == 2
\* stand-alone scheduleFoggerNow() calls explored per behaviour
MaxPulseCalls == 1
\* changes of the cooling output counted over one run of equal ticks
MaxFlips == 2

\* ------------------------------------------------------------------
\* Input sets
\* DHT22 readings in tenths of a unit (the sensor's resolution)
TempInputs == {100, 200, 294, 296}
HumInputs == {600, 750, 756}
\* a DHT read returns a number (here in tenths) or NaN when it fails
NaN == [nan |-> TRUE, tenths |-> 0]
Num(S) == {[nan |-> FALSE, tenths |-> x] : x \in S}
\* raw 12-bit ADC values of the MQ135 pin
RawInputs == {0, 1534, 1536, 4095}
\* values a dashboard widget can send for the setpoints
TempSetpoints == {20, 30}
HumSetpoints == {65, 76}
CO2Setpoints == {400, 1000}
\* values a dashboard widget can send for the cycle parameters
HoursInputs == {0, 1, 6, 11, 12}
SecondsInputs == {4, 5, 180, 181}
\* DS18B20 readings in sixteenths of a degree (the sensor's resolution)
WaterTempInputs == {384, 416, 440, 448}
\* raw 12-bit ADC values of the turbidity pin
TurbidityInputs == {0, 1595}
\* values a dashboard widget can send for the water setpoints
WaterMaxSetpoints == {26, 28}
WaterMinSetpoints == {24, 28}
\* seconds by which time may advance short of the next deadline: within a
\* fogger pulse, and within a light phase
PulseSteps == {3}
PhaseSteps == {1800}

VARIABLES
  \* air sketch: thresholds
  minTemp, maxTemp, minHumid, maxHumid, minCO2, maxCO2,
  \* air sketch: controlFans statics
  intakeFanState, exhaustFanState,
  tempHigh, tempLow, humHigh, humLow, co2High, co2Low,
  \* air sketch: readAndSendSensors statics
  lastTemp, lastHum, lastCO2,
  \* connection to the Blynk server, and the virtual writes of the last handler
  connected, vw,
  \* air sketch: relay states and scheduler globals
  lightState, foggerState, foggerActive,
  schedulerEnabled, lastSchedulerState,
  userLightOnHours, userFoggerSeconds, nextLightOffSec,
  lightTicker, foggerOffTicker,
  \* observation: the handler that ran last and the reading it was given
  lastOp, reading,
  \* observation: number of threshold writes received so far, and number
  \* of stand-alone scheduleFoggerNow() calls made so far
  cfgWrites, pulseCalls,
  \* observation: seconds since the last enableScheduler(true), seconds since
  \* the last scheduleGrowLight(), seconds the fogger has been on, and the
  \* sinceCycle instants at which the fogger was switched on in this cycle
  sinceEnable, sinceCycle, foggerOnFor, pulseStarts,
  \* water sketch: thresholds, cooling and drain state
  OPTIMAL_TEMP_MAX, OPTIMAL_TEMP_MIN,
  coolingActive, manualDrainActive, coolingState,
  \* water sketch: relays (TRUE is on)
  relayPeltier, relayPump, relayFan,
  \* water sketch: last sent values
  waterLastTemp, lastTurbidity, lastWaterLevel, lastTurbidityLabel,
  \* observation: what the last handleActuators tick read from the probe,
  \* and the number of times the cooling output changed over the current run
  \* of ticks with the same reading and thresholds (counted up to 2)
  waterReading, flips

fanVars == <<minTemp, maxTemp, minHumid, maxHumid, minCO2, maxCO2,
             intakeFanState, exhaustFanState,
             tempHigh, tempLow, humHigh, humLow, co2High, co2Low,
             lastTemp, lastHum, lastCO2, reading>>

thresholdVars == <<minTemp, maxTemp, minHumid, maxHumid, minCO2, maxCO2>>

flagVars == <<tempHigh, tempLow, humHigh, humLow, co2High, co2Low>>

fanOutVars == <<intakeFanState, exhaustFanState>>

sentVars == <<lastTemp, lastHum, lastCO2>>

schedVars == <<lightState, foggerState, foggerActive,
               schedulerEnabled, lastSchedulerState,
               nextLightOffSec, lightTicker, foggerOffTicker>>

cycleCfgVars == <<userLightOnHours, userFoggerSeconds>>

clockVars == <<sinceEnable, sinceCycle, foggerOnFor, pulseStarts>>

airVars == <<fanVars, connected, cfgWrites, pulseCalls,
             schedVars, cycleCfgVars, clockVars>>

waterCfgVars == <<OPTIMAL_TEMP_MAX, OPTIMAL_TEMP_MIN>>

relayVars == <<relayPeltier, relayPump, relayFan>>

waterSentVars == <<waterLastTemp, lastTurbidity, lastWaterLevel,
                   lastTurbidityLabel>>

waterVars == <<waterCfgVars, coolingActive, manualDrainActive, coolingState,
               relayVars, waterSentVars, waterReading, flips>>

vars == <<fanVars, connected, vw, lastOp, cfgWrites, pulseCalls,
          schedVars, cycleCfgVars, clockVars, waterVars>>

\* ------------------------------------------------------------------
\* Pure helpers

\* (int)round(x) for x given in tenths: halves round away from zero
RoundTenths(x) ==
  IF x >= 0 THEN (x + 5) \div 10 ELSE 0 - ((0 - x + 5) \div 10)

\* Arduino map(): integer linear interpolation, truncating
Map(x, inMin, inMax, outMin, outMax) ==
  ((x - inMin) * (outMax - outMin)) \div (inMax - inMin) + outMin

NoReading == [ok |-> FALSE, temp |-> 0, hum |-> 0, co2 |-> 0]

DangerTemp(temp) == temp <= TEMP_DANGER_LOW \/ temp >= TEMP_DANGER_HIGH

DangerHum(hum) == hum <= HUM_DANGER_LOW \/ hum >= HUM_DANGER_HIGH

DangerCO2(co2) == co2 <= CO2_DANGER_LOW \/ co2 >= CO2_DANGER_HIGH

\* variant: the CO2 channel is left out of the danger check
DangerWithoutCO2(temp, hum, co2) == DangerTemp(temp) \/ DangerHum(hum)

Danger(temp, hum, co2) == DangerTemp(temp) \/ DangerHum(hum) \/ DangerCO2(co2)

\* variant: High is entered only strictly above the setpoint
HighNextStrict(value, maxSet, high) ==
  IF value > maxSet THEN TRUE
  ELSE IF value <= maxSet - HYST THEN FALSE
  ELSE high

\* sticky High flag of one channel
HighNext(value, maxSet, high) ==
  IF value >= maxSet THEN TRUE
  ELSE IF value <= maxSet - HYST THEN FALSE
  ELSE high

\* sticky Low flag of one channel
LowNext(value, minSet, low) ==
  IF value <= minSet THEN TRUE
  ELSE IF value >= minSet + HYST THEN FALSE
  ELSE low

\* the fan table, applied in source order: temperature, humidity, CO2
WantIntake(tH, tL, cH, cL) ==
  LET afterTemp == IF tH THEN TRUE ELSE IF tL THEN TRUE ELSE FALSE
  IN IF cH THEN afterTemp ELSE IF cL THEN TRUE ELSE afterTemp

WantExhaust(tH, hH, hL, cH) ==
  LET afterTemp == IF tH THEN TRUE ELSE FALSE
      afterHum == IF hH THEN TRUE ELSE IF hL THEN FALSE ELSE afterTemp
  IN IF cH THEN TRUE ELSE afterHum

\* ------------------------------------------------------------------
\* controlFans(temp, hum, co2)
controlFans(temp, hum, co2) ==
  IF Danger(temp, hum, co2)
  THEN /\ intakeFanState' = FALSE
       /\ exhaustFanState' = TRUE
       /\ UNCHANGED flagVars
  ELSE /\ tempHigh' = HighNext(temp, maxTemp, tempHigh)
       /\ tempLow' = LowNext(temp, minTemp, tempLow)
       /\ humHigh' = HighNext(hum, maxHumid, humHigh)
       /\ humLow' = LowNext(hum, minHumid, humLow)
       /\ co2High' = HighNext(co2, maxCO2, co2High)
       /\ co2Low' = LowNext(co2, minCO2, co2Low)
       /\ intakeFanState' = WantIntake(tempHigh', tempLow', co2High', co2Low')
       /\ exhaustFanState' = WantExhaust(tempHigh', humHigh', humLow', co2High')

\* telemetry of one reading: sent only when it differs from the last one sent
Telemetry(pin, value, last) ==
  IF value # last THEN <<[pin |-> pin, val |-> value]>> ELSE <<>>

\* readAndSendSensors(): temperature and humidity as read from the DHT
readAndSendSensors(temperature, humidity, raw) ==
  LET co2Int == Map(raw, 0, ADC_MAX, CO2_MAP_LOW, CO2_MAP_HIGH)
      tempInt == RoundTenths(temperature.tenths)
      humInt == RoundTenths(humidity.tenths)
  IN /\ lastOp' = "readAndSendSensors"
     /\ UNCHANGED <<waterVars, thresholdVars, connected, cfgWrites, pulseCalls,
                    schedVars, cycleCfgVars, clockVars>>
     /\ IF ~temperature.nan /\ ~humidity.nan
        THEN /\ reading' = [ok |-> TRUE, temp |-> tempInt, hum |-> humInt,
                            co2 |-> co2Int]
             /\ controlFans(tempInt, humInt, co2Int)
             /\ IF connected
                THEN /\ vw' = Telemetry("V1", tempInt, lastTemp)
                               \o Telemetry("V2", humInt, lastHum)
                               \o Telemetry("V3", co2Int, lastCO2)
                     /\ lastTemp' = tempInt
                     /\ lastHum' = humInt
                     /\ lastCO2' = co2Int
                ELSE /\ vw' = <<>>
                     /\ UNCHANGED sentVars
        ELSE /\ reading' = NoReading
             /\ vw' = <<>>
             /\ UNCHANGED <<flagVars, fanOutVars, sentVars>>

\* ------------------------------------------------------------------
\* Threshold handlers BLYNK_WRITE(V4..V6, V9..V11); writes arrive only
\* over an established connection
ThresholdWrite(op) ==
  /\ connected
  /\ cfgWrites < MaxCfgWrites
  /\ cfgWrites' = cfgWrites + 1
  /\ lastOp' = "BLYNK_WRITE"
  /\ vw' = <<>>
  /\ UNCHANGED <<waterVars, flagVars, fanOutVars, sentVars, reading,
                 connected, pulseCalls, schedVars, cycleCfgVars, clockVars>>

WriteV4(v) ==
  /\ ThresholdWrite("V4")
  /\ minTemp' = v
  /\ UNCHANGED <<maxTemp, minHumid, maxHumid, minCO2, maxCO2>>

WriteV5(v) ==
  /\ ThresholdWrite("V5")
  /\ maxTemp' = v
  /\ UNCHANGED <<minTemp, minHumid, maxHumid, minCO2, maxCO2>>

WriteV6(v) ==
  /\ ThresholdWrite("V6")
  /\ minHumid' = v
  /\ UNCHANGED <<minTemp, maxTemp, maxHumid, minCO2, maxCO2>>

WriteV9(v) ==
  /\ ThresholdWrite("V9")
  /\ maxHumid' = v
  /\ UNCHANGED <<minTemp, maxTemp, minHumid, minCO2, maxCO2>>

WriteV10(v) ==
  /\ ThresholdWrite("V10")
  /\ minCO2' = v
  /\ UNCHANGED <<minTemp, maxTemp, minHumid, maxHumid, maxCO2>>

WriteV11(v) ==
  /\ ThresholdWrite("V11")
  /\ maxCO2' = v
  /\ UNCHANGED <<minTemp, maxTemp, minHumid, maxHumid, minCO2>>

\* ------------------------------------------------------------------
InitFans ==
  /\ minTemp = 20 /\ maxTemp = 30
  /\ minHumid = 65 /\ maxHumid = 76
  /\ minCO2 = 400 /\ maxCO2 = 1000
  /\ intakeFanState = FALSE /\ exhaustFanState = FALSE
  /\ tempHigh = FALSE /\ tempLow = FALSE
  /\ humHigh = FALSE /\ humLow = FALSE
  /\ co2High = FALSE /\ co2Low = FALSE
  /\ lastTemp = NEVER_SENT /\ lastHum = NEVER_SENT /\ lastCO2 = NEVER_SENT
  /\ reading = NoReading

\* ------------------------------------------------------------------
\* Grow light and fogger scheduler.  The functions below take the
\* scheduler globals as a record and return them as the function leaves
\* them, so that a handler can be composed of the calls it makes.

\* a Ticker: disarmed, or armed with one one-shot timer
Detached == [pending |-> FALSE, remaining |-> 0, cb |-> "none"]

\* Ticker::once(seconds, cb): replaces whatever timer the Ticker held
Once(seconds, cb) == [pending |-> TRUE, remaining |-> seconds, cb |-> cb]

Sched ==
  [lightState |-> lightState, foggerState |-> foggerState,
   foggerActive |-> foggerActive,
   schedulerEnabled |-> schedulerEnabled,
   lastSchedulerState |-> lastSchedulerState,
   nextLightOffSec |-> nextLightOffSec,
   lightTicker |-> lightTicker, foggerOffTicker |-> foggerOffTicker]

setLightState(s, state) == [s EXCEPT !.lightState = state]

setFoggerState(s, state) == [s EXCEPT !.foggerState = state]

\* variant: a pulse is started even while one is active
scheduleFoggerNowRearming(s) ==
  IF ~s.lightState THEN s
  ELSE [setFoggerState(s, TRUE) EXCEPT
          !.foggerActive = TRUE,
          !.foggerOffTicker = Once(userFoggerSeconds, "foggerOff")]

scheduleFoggerNow(s) ==
  IF ~s.lightState THEN s
  ELSE IF ~s.foggerActive
       THEN [setFoggerState(s, TRUE) EXCEPT
               !.foggerActive = TRUE,
               !.foggerOffTicker = Once(userFoggerSeconds, "foggerOff")]
       ELSE s

\* the lambda armed on foggerOffTicker
foggerOff(s) == [setFoggerState(s, FALSE) EXCEPT !.foggerActive = FALSE]

\* variant: the light-OFF phase lasts a whole cycle
scheduleGrowLightLongOff(s) ==
  LET onSec == userLightOnHours * SEC_PER_HOUR
      offSec == CYCLE_HOURS * SEC_PER_HOUR
      s1 == [s EXCEPT !.nextLightOffSec = offSec]
      s2 == setLightState(s1, TRUE)
      s3 == scheduleFoggerNow(s2)
      s4 == [s3 EXCEPT !.lightTicker = Once(onSec \div 2, "scheduleFoggerNow")]
  IN [s4 EXCEPT !.lightTicker = Once(onSec, "lightOff")]

scheduleGrowLight(s) ==
  LET onSec == userLightOnHours * SEC_PER_HOUR
      offSec == (CYCLE_HOURS - userLightOnHours) * SEC_PER_HOUR
      s1 == [s EXCEPT !.nextLightOffSec = offSec]
      s2 == setLightState(s1, TRUE)
      s3 == scheduleFoggerNow(s2)
      s4 == [s3 EXCEPT !.lightTicker = Once(onSec \div 2, "scheduleFoggerNow")]
  IN [s4 EXCEPT !.lightTicker = Once(onSec, "lightOff")]

\* the lambda armed on lightTicker for the end of the light-ON phase
lightOff(s) ==
  LET s1 == setLightState(s, FALSE)
  IN [s1 EXCEPT !.lightTicker = Once(s1.nextLightOffSec, "scheduleGrowLight")]

\* variant: the mode is not remembered for the reconnect
enableSchedulerForgettingMode(s, enable) ==
  LET s1 == [s EXCEPT !.schedulerEnabled = enable,
                      !.lightTicker = Detached,
                      !.foggerOffTicker = Detached]
  IN IF enable THEN scheduleGrowLight(s1)
     ELSE setFoggerState(setLightState(s1, FALSE), FALSE)

\* variant: the pulse timer is not cancelled
enableSchedulerKeepingPulseTimer(s, enable) ==
  LET s1 == [s EXCEPT !.schedulerEnabled = enable,
                      !.lastSchedulerState = enable,
                      !.lightTicker = Detached]
  IN IF enable THEN scheduleGrowLight(s1)
     ELSE setFoggerState(setLightState(s1, FALSE), FALSE)

enableScheduler(s, enable) ==
  LET s1 == [s EXCEPT !.schedulerEnabled = enable,
                      !.lastSchedulerState = enable,
                      !.lightTicker = Detached,
                      !.foggerOffTicker = Detached]
  IN IF enable THEN scheduleGrowLight(s1)
     ELSE setFoggerState(setLightState(s1, FALSE), FALSE)

\* variant: twelve hours are accepted
LightHoursAcceptedUpTo12(hours) == hours > 0 /\ hours <= CYCLE_HOURS

LightHoursAccepted(hours) == hours > 0 /\ hours < CYCLE_HOURS

FoggerSecondsAccepted(seconds) ==
  seconds >= FOGGER_MIN_SECONDS /\ seconds <= FOGGER_MAX_SECONDS

\* Blynk.virtualWrite(V0, schedulerEnabled) at the end of enableScheduler
SwitchEcho(s, isConnected) ==
  IF isConnected THEN <<[pin |-> "V0", val |-> s.schedulerEnabled]>> ELSE <<>>

Least(S) == CHOOSE x \in S : \A y \in S : x <= y

\* the scheduler globals become s; dt seconds have passed; restart says
\* whether scheduleGrowLight() ran, fresh whether enableScheduler(true) did.
\* The clocks run only while the scheduler is enabled, and foggerOnFor stops
\* counting one second past the longest pulse that can be configured.
Commit(s, dt, restart, fresh) ==
  /\ lightState' = s.lightState
  /\ foggerState' = s.foggerState
  /\ foggerActive' = s.foggerActive
  /\ schedulerEnabled' = s.schedulerEnabled
  /\ lastSchedulerState' = s.lastSchedulerState
  /\ nextLightOffSec' = s.nextLightOffSec
  /\ lightTicker' = s.lightTicker
  /\ foggerOffTicker' = s.foggerOffTicker
  /\ sinceEnable' = IF fresh \/ ~s.schedulerEnabled THEN 0
                    ELSE sinceEnable + dt
  /\ sinceCycle' = IF restart \/ ~s.schedulerEnabled THEN 0
                   ELSE sinceCycle + dt
  /\ foggerOnFor' = IF s.foggerState /\ foggerState
                    THEN Least({foggerOnFor + dt, FOGGER_MAX_SECONDS + 1})
                    ELSE 0
  /\ pulseStarts' = (IF restart \/ ~s.schedulerEnabled THEN {}
                     ELSE pulseStarts)
                      \cup (IF s.foggerState /\ ~foggerState
                            THEN {sinceCycle'} ELSE {})

\* BLYNK_WRITE(V0)
WriteV0(newState) ==
  LET s == enableScheduler(Sched, newState)
  IN /\ connected
     /\ Commit(s, 0, newState, newState)
     /\ vw' = SwitchEcho(s, connected)
     /\ lastOp' = "V0"
     /\ UNCHANGED <<waterVars, fanVars, cfgWrites, pulseCalls, connected, cycleCfgVars>>



\* BLYNK_WRITE(V7): light_on_hours
WriteV7(hours) ==
  /\ connected
  /\ lastOp' = "V7"
  /\ IF ~schedulerEnabled /\ LightHoursAccepted(hours)
     THEN /\ userLightOnHours' = hours
          /\ vw' = <<>>
     ELSE /\ vw' = <<[pin |-> "V6", val |-> userLightOnHours]>>
          /\ UNCHANGED userLightOnHours
  /\ UNCHANGED <<waterVars, fanVars, cfgWrites, pulseCalls, connected, schedVars,
                 clockVars, userFoggerSeconds>>

\* BLYNK_WRITE(V8): fogger_pulse_seconds
WriteV8(seconds) ==
  /\ connected
  /\ lastOp' = "V8"
  /\ IF ~schedulerEnabled /\ FoggerSecondsAccepted(seconds)
     THEN /\ userFoggerSeconds' = seconds
          /\ vw' = <<>>
     ELSE /\ vw' = <<[pin |-> "V7", val |-> userFoggerSeconds]>>
          /\ UNCHANGED userFoggerSeconds
  /\ UNCHANGED <<waterVars, fanVars, cfgWrites, pulseCalls, connected, schedVars,
                 clockVars, userLightOnHours>>

\* BLYNK_CONNECTED(): the connection to the server is (re-)established.
\* syncVirtual() only asks the server to send the stored pin values again;
\* they arrive as later BLYNK_WRITE calls.
BlynkConnected ==
  LET s == enableScheduler(Sched, lastSchedulerState)
  IN /\ ~connected
     /\ connected' = TRUE
     /\ Commit(s, 0, lastSchedulerState, lastSchedulerState)
     /\ vw' = SwitchEcho(s, TRUE)
     /\ lastOp' = "BLYNK_CONNECTED"
     /\ UNCHANGED <<waterVars, fanVars, cfgWrites, pulseCalls, cycleCfgVars>>

\* the connection to the server is lost
Disconnect ==
  /\ connected
  /\ connected' = FALSE
  /\ lastOp' = "disconnect"
  /\ vw' = <<>>
  /\ UNCHANGED <<waterVars, fanVars, cfgWrites, pulseCalls, schedVars, cycleCfgVars,
                 clockVars>>

\* ------------------------------------------------------------------
\* Timers

PendingRemaining ==
  (IF lightTicker.pending THEN {lightTicker.remaining} ELSE {})
    \cup (IF foggerOffTicker.pending THEN {foggerOffTicker.remaining} ELSE {})

TimerDue == 0 \in PendingRemaining

Elapse(t, dt) ==
  IF t.pending THEN [t EXCEPT !.remaining = t.remaining - dt] ELSE t

\* dt seconds pass without any timer becoming overdue
Advance(dt) ==
  /\ PendingRemaining # {}
  /\ dt > 0
  /\ dt <= Least(PendingRemaining)
  /\ sinceEnable + dt <= MaxCycles * CYCLE_HOURS * SEC_PER_HOUR
  /\ Commit([Sched EXCEPT !.lightTicker = Elapse(lightTicker, dt),
                          !.foggerOffTicker = Elapse(foggerOffTicker, dt)],
            dt, FALSE, FALSE)
  /\ lastOp' = "advance"
  /\ vw' = <<>>
  /\ UNCHANGED <<waterVars, fanVars, cfgWrites, pulseCalls, connected, cycleCfgVars>>

\* the steps by which time may advance: to the next deadline, or short of it
\* by a pulse step during a fogger pulse and by a phase step otherwise
AdvanceSteps ==
  IF PendingRemaining = {} THEN {}
  ELSE LET gap == Least(PendingRemaining)
       IN {gap} \cup {c \in (IF foggerOffTicker.pending THEN PulseSteps
                                ELSE PhaseSteps) : c < gap}

\* the one-shot timer of lightTicker fires and runs its callback
LightTickerFire ==
  LET s0 == [Sched EXCEPT !.lightTicker = Detached]
      cb == lightTicker.cb
      s == IF cb = "lightOff" THEN lightOff(s0)
           ELSE IF cb = "scheduleGrowLight" THEN scheduleGrowLight(s0)
           ELSE scheduleFoggerNow(s0)
  IN /\ lightTicker.pending
     /\ lightTicker.remaining = 0
     /\ Commit(s, 0, cb = "scheduleGrowLight", FALSE)
     /\ lastOp' = cb
     /\ vw' = <<>>
     /\ UNCHANGED <<waterVars, fanVars, cfgWrites, pulseCalls, connected, cycleCfgVars>>

\* the one-shot timer of foggerOffTicker fires and runs its callback
FoggerOffTickerFire ==
  LET s == foggerOff([Sched EXCEPT !.foggerOffTicker = Detached])
  IN /\ foggerOffTicker.pending
     /\ foggerOffTicker.remaining = 0
     /\ Commit(s, 0, FALSE, FALSE)
     /\ lastOp' = "foggerOff"
     /\ vw' = <<>>
     /\ UNCHANGED <<waterVars, fanVars, cfgWrites, pulseCalls, connected, cycleCfgVars>>

\* scheduleFoggerNow() invoked on its own, as a timer callback would
PulseCall ==
  /\ ~TimerDue
  /\ pulseCalls < MaxPulseCalls
  /\ pulseCalls' = pulseCalls + 1
  /\ Commit(scheduleFoggerNow(Sched), 0, FALSE, FALSE)
  /\ lastOp' = "scheduleFoggerNow"
  /\ vw' = <<>>
  /\ UNCHANGED <<waterVars, fanVars, cfgWrites, connected, cycleCfgVars>>

\* ------------------------------------------------------------------
InitSched ==
  /\ lightState = FALSE /\ foggerState = FALSE /\ foggerActive = FALSE
  /\ schedulerEnabled = FALSE /\ lastSchedulerState = FALSE
  /\ userLightOnHours = LIGHT_DEFAULT_HOURS
  /\ userFoggerSeconds = FOGGER_DEFAULT_SECONDS
  /\ nextLightOffSec = 0
  /\ lightTicker = Detached /\ foggerOffTicker = Detached
  /\ sinceEnable = 0 /\ sinceCycle = 0 /\ foggerOnFor = 0
  /\ pulseStarts = {}

\* ------------------------------------------------------------------
\* Water monitoring sketch (src/src/Water Monitoring Dashboard/code.ino)

\* C integer division: truncates toward zero
TruncDiv(a, b) ==
  IF (a >= 0) = (b > 0) \/ a = 0
  THEN (IF a >= 0 THEN a ELSE 0 - a) \div (IF b >= 0 THEN b ELSE 0 - b)
  ELSE 0 - ((IF a >= 0 THEN a ELSE 0 - a) \div (IF b >= 0 THEN b ELSE 0 - b))

Abs(x) == IF x >= 0 THEN x ELSE 0 - x

\* the probe answers with a temperature or is disconnected
Disconnected == [disconnected |-> TRUE, sixteenths |-> 0]
Probe(S) == {[disconnected |-> FALSE, sixteenths |-> x] : x \in S}

\* readWaterTemp(): the sentinel for a disconnected probe, else (int)temp
readWaterTemp(probe) ==
  IF probe.disconnected THEN DISCONNECTED_TEMP
  ELSE TruncDiv(probe.sixteenths, 16)

\* readTurbidityNTU(): map(), constrain(), then a tenth, truncated
readTurbidityNTU(rawValue) ==
  LET mapped == TruncDiv((rawValue - TURBIDITY_RAW_CLEAR)
                           * (TURBIDITY_NTU_MAX - 0),
                         0 - TURBIDITY_RAW_CLEAR) + 0
      ntu == IF mapped < 0 THEN 0
             ELSE IF mapped > TURBIDITY_NTU_MAX THEN TURBIDITY_NTU_MAX
             ELSE mapped
  IN TruncDiv(ntu, 10)

\* getTurbidityLabel(): clarity = 100 - ntu * 10 / 3000 * 100, compared
\* here after multiplying by 30
getTurbidityLabel(ntu) ==
  LET clarity30 == TURBIDITY_NTU_MAX - ntu * 10
  IN IF clarity30 > 80 * 30 THEN "Clear"
     ELSE IF clarity30 > 50 * 30 THEN "Slightly Cloudy"
     ELSE IF clarity30 > 20 * 30 THEN "Cloudy"
     ELSE "Very Hazy"

\* readWaterLevel(): 1 is OK, 0 is LOW
readWaterLevel(pinHigh) == IF pinHigh THEN 0 ELSE 1

\* sendSensorData()
sendSensorData(probe, rawValue, pinHigh) ==
  LET temp == readWaterTemp(probe)
      turbidity == readTurbidityNTU(rawValue)
      waterLevel == readWaterLevel(pinHigh)
      turbidityLabel == getTurbidityLabel(turbidity)
      sendTemp == Abs(temp - waterLastTemp) >= TEMP_THRESHOLD
      sendTurbidity == Abs(turbidity - lastTurbidity) >= TURBIDITY_THRESHOLD
      sendLabel == turbidityLabel # lastTurbidityLabel
      sendLevel == waterLevel # lastWaterLevel
  IN /\ lastOp' = "sendSensorData"
     /\ waterLastTemp' = IF sendTemp THEN temp ELSE waterLastTemp
     /\ lastTurbidity' = IF sendTurbidity THEN turbidity ELSE lastTurbidity
     /\ lastTurbidityLabel' = IF sendLabel THEN turbidityLabel
                              ELSE lastTurbidityLabel
     /\ lastWaterLevel' = IF sendLevel THEN waterLevel ELSE lastWaterLevel
     /\ vw' = (IF sendTemp THEN <<[pin |-> "V0", val |-> temp]>> ELSE <<>>)
           \o (IF sendTurbidity THEN <<[pin |-> "V1", val |-> turbidity]>>
               ELSE <<>>)
           \o (IF sendLabel THEN <<[pin |-> "V4", val |-> turbidityLabel]>>
               ELSE <<>>)
           \o (IF sendLevel
               THEN <<[pin |-> "V2", val |-> waterLevel],
                      [pin |-> "V3",
                       val |-> IF waterLevel = 1 THEN "OK" ELSE "LOW"]>>
               ELSE <<>>)
     /\ UNCHANGED <<airVars, waterCfgVars, coolingActive, manualDrainActive,
                    coolingState, relayVars, waterReading, flips>>

\* variant: cooling starts only strictly above the maximum
CoolingNextStrict(temp, state) ==
  IF ~state
  THEN (IF temp > OPTIMAL_TEMP_MAX THEN TRUE ELSE state)
  ELSE (IF temp <= OPTIMAL_TEMP_MIN THEN FALSE ELSE state)

\* variant: cooling stops at the maximum less the hysteresis
CoolingNextUpperOff(temp, state) ==
  IF ~state
  THEN (IF temp >= OPTIMAL_TEMP_MAX THEN TRUE ELSE state)
  ELSE (IF temp <= OPTIMAL_TEMP_MAX - TEMP_HYSTERESIS THEN FALSE ELSE state)

\* the sticky cooling state after a reading of temp
CoolingNext(temp, state) ==
  LET upperOn == OPTIMAL_TEMP_MAX
      upperOff == OPTIMAL_TEMP_MAX - TEMP_HYSTERESIS
      lowerOff == OPTIMAL_TEMP_MIN
      lowerOn == OPTIMAL_TEMP_MIN + TEMP_HYSTERESIS
  IN IF ~state
     THEN (IF temp >= upperOn THEN TRUE ELSE state)
     ELSE (IF temp <= lowerOff THEN FALSE ELSE state)

\* controlCoolingSystem(on)
controlCoolingSystem(on) ==
  /\ relayPeltier' = on
  /\ relayPump' = on
  /\ relayFan' = on
  /\ coolingActive' = on

NoTick == [tick |-> FALSE, ok |-> FALSE, temp |-> 0]

\* the cooling part of handleActuators(), below the manual drain check
CoolingTick(probe) ==
  LET temp == readWaterTemp(probe)
      sameRun == /\ waterReading.tick
                 /\ waterReading.ok = ~probe.disconnected
                 /\ waterReading.temp = temp
      changed == IF coolingState' # coolingState THEN 1 ELSE 0
  IN /\ coolingState' = CoolingNext(temp, coolingState)
     /\ controlCoolingSystem(coolingState')
     /\ waterReading' = [tick |-> TRUE, ok |-> ~probe.disconnected,
                         temp |-> temp]
     /\ flips' = Least({MaxFlips, (IF sameRun THEN flips ELSE 0) + changed})

\* the manual drain part of handleActuators()
DrainTick ==
  /\ relayPump' = TRUE
  /\ relayPeltier' = FALSE
  /\ relayFan' = FALSE
  /\ waterReading' = NoTick
  /\ flips' = 0
  /\ UNCHANGED <<coolingState, coolingActive>>

\* variant: the manual drain mode is not looked at
handleActuatorsIgnoringDrain(probe) ==
  /\ lastOp' = "handleActuators"
  /\ vw' = <<>>
  /\ CoolingTick(probe)
  /\ UNCHANGED <<airVars, waterCfgVars, manualDrainActive, waterSentVars>>

\* handleActuators()
handleActuators(probe) ==
  /\ lastOp' = "handleActuators"
  /\ vw' = <<>>
  /\ IF manualDrainActive THEN DrainTick ELSE CoolingTick(probe)
  /\ UNCHANGED <<airVars, waterCfgVars, manualDrainActive, waterSentVars>>

\* BLYNK_WRITE(V6) of the water sketch: OPTIMAL_TEMP_MAX
WaterWriteV6(val) ==
  /\ lastOp' = "waterV6"
  /\ vw' = <<>>
  /\ OPTIMAL_TEMP_MAX' = val
  /\ waterReading' = NoTick
  /\ flips' = 0
  /\ UNCHANGED <<airVars, OPTIMAL_TEMP_MIN, coolingActive, manualDrainActive,
                 coolingState, relayVars, waterSentVars>>

\* BLYNK_WRITE(V5) of the water sketch: OPTIMAL_TEMP_MIN
WaterWriteV5(val) ==
  /\ lastOp' = "waterV5"
  /\ vw' = <<>>
  /\ OPTIMAL_TEMP_MIN' = val
  /\ waterReading' = NoTick
  /\ flips' = 0
  /\ UNCHANGED <<airVars, OPTIMAL_TEMP_MAX, coolingActive, manualDrainActive,
                 coolingState, relayVars, waterSentVars>>

\* BLYNK_WRITE(V7) of the water sketch: manual drain button
WaterWriteV7(state) ==
  /\ lastOp' = "waterV7"
  /\ vw' = <<>>
  /\ manualDrainActive' = (state = 1)
  /\ IF state = 1
     THEN /\ relayPump' = TRUE
          /\ relayPeltier' = FALSE
          /\ relayFan' = FALSE
     ELSE /\ relayPump' = FALSE
          /\ UNCHANGED <<relayPeltier, relayFan>>
  /\ waterReading' = NoTick
  /\ flips' = 0
  /\ UNCHANGED <<airVars, waterCfgVars, coolingActive, coolingState,
                 waterSentVars>>

InitWater ==
  /\ OPTIMAL_TEMP_MAX = 28 /\ OPTIMAL_TEMP_MIN = 24
  /\ coolingActive = FALSE /\ manualDrainActive = FALSE
  /\ coolingState = FALSE
  /\ relayPeltier = FALSE /\ relayPump = FALSE /\ relayFan = FALSE
  /\ waterLastTemp = NEVER_SENT /\ lastTurbidity = NEVER_SENT
  /\ lastWaterLevel = NO_LEVEL_SENT /\ lastTurbidityLabel = ""
  /\ waterReading = NoTick /\ flips = 0

Init ==
  /\ InitFans
  /\ InitSched
  /\ InitWater
  /\ connected = FALSE
  /\ vw = <<>>
  /\ lastOp = "setup"
  /\ cfgWrites = 0
  /\ pulseCalls = 0

NextFans ==
  \/ \E temperature \in Num(TempInputs) \cup {NaN},
        humidity \in Num(HumInputs) \cup {NaN},
        raw \in RawInputs : readAndSendSensors(temperature, humidity, raw)
  \/ \E v \in TempSetpoints : WriteV4(v)
  \/ \E v \in TempSetpoints : WriteV5(v)
  \/ \E v \in HumSetpoints : WriteV6(v)
  \/ \E v \in HumSetpoints : WriteV9(v)
  \/ \E v \in CO2Setpoints : WriteV10(v)
  \/ \E v \in CO2Setpoints : WriteV11(v)
  \/ BlynkConnected

NextSched ==
  \/ \E newState \in BOOLEAN : WriteV0(newState)
  \/ \E hours \in HoursInputs : WriteV7(hours)
  \/ \E seconds \in SecondsInputs : WriteV8(seconds)
  \/ BlynkConnected
  \/ Disconnect
  \/ \E dt \in AdvanceSteps : Advance(dt)
  \/ LightTickerFire
  \/ FoggerOffTickerFire

NextPulse ==
  \/ NextSched
  \/ PulseCall

NextWater ==
  \/ \E probe \in Probe(WaterTempInputs) \cup {Disconnected} :
        handleActuators(probe)
  \/ \E probe \in Probe(WaterTempInputs) \cup {Disconnected},
        rawValue \in TurbidityInputs, pinHigh \in BOOLEAN :
        sendSensorData(probe, rawValue, pinHigh)
  \/ \E val \in WaterMaxSetpoints : WaterWriteV6(val)
  \/ \E val \in WaterMinSetpoints : WaterWriteV5(val)
  \/ \E state \in {0, 1} : WaterWriteV7(state)

\* the fan controller with its configuration handlers
SpecFans == Init /\ [][NextFans]_vars

\* the scheduler with its handlers and timers
SpecSched == Init /\ [][NextSched]_vars

\* the water sketch: cooling controller, manual drain and telemetry
SpecWater == Init /\ [][NextWater]_vars

\* the scheduler, with scheduleFoggerNow() also callable at any instant
SpecPulse == Init /\ [][NextPulse]_vars

\* ------------------------------------------------------------------
\* Properties of the fan controller (SpecFans)

\* the danger condition as the data model states it
ReadingInDanger(r) ==
  \/ r.temp <= 10 \/ r.temp >= 40
  \/ r.hum <= 30 \/ r.hum >= 90
  \/ r.co2 <= 100 \/ r.co2 >= 2000

\* the state was produced by an evaluation of controlFans
Evaluated == lastOp = "readAndSendSensors" /\ reading.ok

\* C1: an evaluation with a channel at or beyond a danger limit outputs
\* exhaust on and intake off, and leaves the six sticky flags as they were
C1_DangerForcesVenting ==
  /\ [](Evaluated /\ ReadingInDanger(reading)
          => exhaustFanState /\ ~intakeFanState)
  /\ [][Evaluated' /\ ReadingInDanger(reading') => UNCHANGED flagVars]_vars

\* a danger evaluation that overrode the intake request of a Low temperature
\* flag and kept that flag
C1_Witness ==
  /\ Evaluated /\ reading.co2 >= 2000
  /\ tempLow /\ ~tempHigh /\ humHigh
  /\ exhaustFanState /\ ~intakeFanState

\* C2: after a non-danger evaluation the outputs are the OR of the channel
\* contributions; in particular exhaust is on whenever a High flag holds
C2_OutputsAreOr ==
  Evaluated /\ ~ReadingInDanger(reading) =>
    /\ intakeFanState <=> (tempHigh \/ tempLow \/ co2Low)
    /\ exhaustFanState <=> (tempHigh \/ humHigh \/ co2High)

HighRule(value, maxSet, high, highAfter) ==
  /\ value >= maxSet => highAfter
  /\ high /\ value > maxSet - 2 /\ value < maxSet => highAfter
  /\ high /\ ~highAfter => value <= maxSet - 2

\* C3: in a non-danger evaluation each channel's High flag is set by a value
\* at or above the max setpoint, is kept by a value strictly inside the
\* margin below it, and is cleared only by a value at or below
\* max setpoint - margin
C3_HighIsSticky ==
  [][Evaluated' /\ ~ReadingInDanger(reading') =>
       /\ HighRule(reading'.temp, maxTemp, tempHigh, tempHigh')
       /\ HighRule(reading'.hum, maxHumid, humHigh, humHigh')
       /\ HighRule(reading'.co2, maxCO2, co2High, co2High')]_vars

\* temperature 29 under maxTemp 30 with the High flag still set
C3_Witness ==
  /\ Evaluated /\ ~ReadingInDanger(reading)
  /\ maxTemp = 30 /\ reading.temp = 29 /\ tempHigh

\* ------------------------------------------------------------------
\* Properties of the scheduler (SpecSched, SpecPulse)

CyclePeriod == 12 * 3600

\* C4: while the scheduler is disabled the light and the fogger are off and
\* neither Ticker is armed
C4_DisabledIsQuiet ==
  ~schedulerEnabled =>
    /\ ~lightState /\ ~foggerState
    /\ ~lightTicker.pending /\ ~foggerOffTicker.pending

\* a disable that interrupted a fogger pulse
C4_Witness ==
  /\ lastOp = "V0" /\ ~schedulerEnabled
  /\ foggerActive /\ ~foggerState /\ ~lightState

\* C5: t seconds after an enable the light is on exactly when
\* t mod 43200 < light_on_hours * 3600 (at the instant a phase ends, once
\* the phase timer has run)
C5_LightFollowsDutyCycle ==
  schedulerEnabled /\ ~(lightTicker.pending /\ lightTicker.remaining = 0) =>
    (lightState <=> (sinceEnable % CyclePeriod) < userLightOnHours * 3600)

\* the light-OFF phase of the second cycle
C5_Witness ==
  /\ schedulerEnabled /\ ~lightState
  /\ sinceEnable > CyclePeriod + userLightOnHours * 3600

\* C6: when a light-ON phase has run to completion, a fogger pulse was
\* started light_on_hours * 3600 / 2 seconds into it
C6_SecondPulseAtHalfway ==
  lastOp = "lightOff" => ((userLightOnHours * 3600) \div 2) \in pulseStarts

\* C7: the fogger is never on for longer than fogger_pulse_seconds
C7_PulseEndsInTime ==
  foggerState => foggerOnFor <= userFoggerSeconds

\* C8: right after enableScheduler(true) the light is on, a fogger pulse of
\* fogger_pulse_seconds has just started and the light goes off
\* light_on_hours * 3600 seconds later
C8_EnableStartsFreshCycle ==
  lastOp \in {"V0", "BLYNK_CONNECTED"} /\ schedulerEnabled =>
    /\ lightState /\ foggerState
    /\ foggerOffTicker.pending
    /\ foggerOffTicker.remaining = userFoggerSeconds
    /\ lightTicker.pending /\ lightTicker.cb = "lightOff"
    /\ lightTicker.remaining = userLightOnHours * 3600

\* C9: scheduleFoggerNow() called while the light is off or a pulse is
\* active changes neither the fogger relay, nor the pulse flag, nor the
\* pulse timer
C9_PulseCallIsNoOp ==
  [][lastOp' = "scheduleFoggerNow" /\ (~lightState \/ foggerActive) =>
       UNCHANGED <<foggerState, foggerActive, foggerOffTicker>>]_vars

\* a call made in the middle of a pulse, whose timer kept its remaining time
C9_Witness ==
  /\ lastOp = "scheduleFoggerNow"
  /\ lightState /\ foggerActive /\ foggerState
  /\ foggerOffTicker.pending
  /\ foggerOffTicker.remaining > 0
  /\ foggerOffTicker.remaining < userFoggerSeconds

\* C10: light_on_hours stays in 1..11 and fogger_pulse_seconds in 5..180,
\* and each changes only by its own handler while the scheduler is disabled
C10_CycleConfigGuarded ==
  /\ [](userLightOnHours \in 1..11 /\ userFoggerSeconds \in 5..180)
  /\ [][/\ userLightOnHours' # userLightOnHours =>
             ~schedulerEnabled /\ lastOp' = "V7"
        /\ userFoggerSeconds' # userFoggerSeconds =>
             ~schedulerEnabled /\ lastOp' = "V8"]_vars

\* a write of light_on_hours rejected while a cycle with a previously
\* accepted value is running
C10_Witness ==
  /\ lastOp = "V7" /\ schedulerEnabled
  /\ userLightOnHours = 11 /\ userFoggerSeconds = 180
  /\ vw # <<>>

\* ------------------------------------------------------------------
\* Further properties of the fan controller (SpecFans)

\* C15: no channel has its High flag and its Low flag set together
C15_HighLowExclusive ==
  /\ ~(tempHigh /\ tempLow)
  /\ ~(humHigh /\ humLow)
  /\ ~(co2High /\ co2Low)

\* ------------------------------------------------------------------
\* Further properties of the scheduler (SpecSched)

\* C16: the remembered mode is the current mode, and BLYNK_CONNECTED
\* reapplies it: an enabled scheduler stays enabled and restarts its light
\* cycle, a disabled one stays disabled with light and fogger off
C16_ReconnectReappliesMode ==
  /\ [](lastSchedulerState = schedulerEnabled)
  /\ [][lastOp' = "BLYNK_CONNECTED" =>
          /\ schedulerEnabled' = schedulerEnabled
          /\ schedulerEnabled' =>
               /\ lightState' /\ sinceEnable' = 0
               /\ lightTicker'.pending /\ lightTicker'.cb = "lightOff"
               /\ lightTicker'.remaining = userLightOnHours * 3600
          /\ ~schedulerEnabled' => ~lightState' /\ ~foggerState']_vars

\* a reconnect that found the scheduler enabled and restarted the cycle
C16_Witness ==
  /\ lastOp = "BLYNK_CONNECTED" /\ schedulerEnabled /\ lastSchedulerState
  /\ lightState /\ sinceEnable = 0
  /\ lightTicker.remaining = userLightOnHours * 3600

\* C17: a handler of a cycle parameter writes to no virtual pin but its own
C17_EchoOnSameChannel ==
  /\ lastOp = "V7" => \A i \in 1..Len(vw) : vw[i].pin = "V7"
  /\ lastOp = "V8" => \A i \in 1..Len(vw) : vw[i].pin = "V8"

\* C18: the fogger is on only while the light is on
C18_FoggerOnlyWithLight ==
  foggerState => lightState

\* C19: the pulse flag, the fogger relay and the pulse timer agree
C19_PulseBookkeeping ==
  /\ foggerActive <=> foggerState
  /\ foggerActive <=> foggerOffTicker.pending

\* ------------------------------------------------------------------
\* Claims about the water sketch

\* a handleActuators() tick that ran the cooling controller
CoolingTicked == lastOp = "handleActuators" /\ waterReading.tick

\* C11: a control cycle whose reading is unavailable makes no actuation
\* decision. For the water sketch: a handleActuators() tick that finds the
\* temperature probe disconnected leaves the sticky cooling state and the
\* cooling output as they were.
C11_UnavailableHoldsCooling ==
  [][(lastOp' = "handleActuators" /\ waterReading'.tick
        /\ ~waterReading'.ok)
       => /\ coolingState' = coolingState
          /\ coolingActive' = coolingActive]_vars

\* C12: with manual drain inactive and OPTIMAL_TEMP_MIN < OPTIMAL_TEMP_MAX,
\* after each tick the cooling output is on if temp >= OPTIMAL_TEMP_MAX, off
\* if temp <= OPTIMAL_TEMP_MIN, and otherwise what it was after the previous
\* tick; the three relays follow the cooling output.
C12_StickyThermostat ==
  /\ [](coolingActive = coolingState)
  /\ [][(lastOp' = "handleActuators" /\ waterReading'.tick
           /\ OPTIMAL_TEMP_MIN < OPTIMAL_TEMP_MAX)
          => /\ coolingActive' =
                  (IF waterReading'.temp >= OPTIMAL_TEMP_MAX THEN TRUE
                   ELSE IF waterReading'.temp <= OPTIMAL_TEMP_MIN THEN FALSE
                   ELSE coolingActive)
             /\ relayPeltier' = coolingActive'
             /\ relayPump' = coolingActive'
             /\ relayFan' = coolingActive']_vars

\* a tick between the setpoints has kept the cooling on
C12_Witness ==
  /\ CoolingTicked /\ OPTIMAL_TEMP_MIN < OPTIMAL_TEMP_MAX
  /\ waterReading.temp > OPTIMAL_TEMP_MIN
  /\ waterReading.temp < OPTIMAL_TEMP_MAX
  /\ coolingActive /\ relayPeltier /\ relayPump /\ relayFan

\* C13 as stated: with OPTIMAL_TEMP_MAX = 28 and a margin of 1, a reading of
\* 28 turns cooling on, and a following reading of 27 turns it off on that
\* tick.
C13_OffAtMaxLessMargin ==
  [][(lastOp' = "handleActuators" /\ waterReading'.tick
        /\ OPTIMAL_TEMP_MAX = 28)
       => /\ waterReading'.temp = 28 /\ ~coolingActive => coolingActive'
          /\ (waterReading'.temp = OPTIMAL_TEMP_MAX - TEMP_HYSTERESIS
                /\ coolingActive) => ~coolingActive']_vars

\* C13 amended: with OPTIMAL_TEMP_MAX = 28 and OPTIMAL_TEMP_MIN = 24, a
\* reading of 28 turns cooling on, a following reading of 27 leaves it on,
\* and it turns off on the tick whose reading is at or below
\* OPTIMAL_TEMP_MIN.
C13_OffAtMin ==
  [][(lastOp' = "handleActuators" /\ waterReading'.tick
        /\ OPTIMAL_TEMP_MAX = 28 /\ OPTIMAL_TEMP_MIN = 24)
       => /\ waterReading'.temp = 28 /\ ~coolingActive => coolingActive'
          /\ (waterReading'.temp = OPTIMAL_TEMP_MAX - TEMP_HYSTERESIS
                /\ coolingActive) => coolingActive'
          /\ waterReading'.temp <= OPTIMAL_TEMP_MIN => ~coolingActive']_vars

\* cooling is still on after a tick that read 27
C13_Witness ==
  /\ CoolingTicked /\ OPTIMAL_TEMP_MAX = 28 /\ OPTIMAL_TEMP_MIN = 24
  /\ waterReading.temp = OPTIMAL_TEMP_MAX - TEMP_HYSTERESIS
  /\ coolingActive /\ relayPeltier

\* C14: while manualDrainActive is set, after every handler and every tick
\* the pump is on and the Peltier and the fan are off, and no step changes
\* the sticky cooling state.
C14_ManualDrainOverrides ==
  /\ [](manualDrainActive => relayPump /\ ~relayPeltier /\ ~relayFan)
  /\ [][manualDrainActive /\ manualDrainActive'
          => coolingState' = coolingState]_vars

\* a tick under manual drain, with the sticky cooling state on
C14_Witness ==
  /\ lastOp = "handleActuators" /\ manualDrainActive /\ coolingState
  /\ relayPump /\ ~relayPeltier /\ ~relayFan

\* C20: over consecutive ticks with the same thresholds and the same
\* reading, the cooling output changes at most once.
C20_NoChatter == flips <= 1

====
